---- MODULE Spec2Model ----
(***************************************************************************)
(* Model of serve-sample-data.py: the bootstrap in main() (port argument,  *)
(* directory check, chdir, file enumeration, server creation, banner,      *)
(* serve loop, KeyboardInterrupt handling) and CustomHTTPRequestHandler    *)
(* (log_message, end_headers) together with the request handling it        *)
(* inherits from SimpleHTTPRequestHandler.                                 *)
(*                                                                         *)
(* Strings that the program parses are sequences of one-character strings; *)
(* file-system paths and request paths are sequences of path components    *)
(* (the result of splitting the text at "/").  A request is a well-formed  *)
(* HTTP/1.x request: a method, a request path, and whether it carries an   *)
(* If-Modified-Since date that the named file is not newer than.           *)
(***************************************************************************)
EXTENDS Integers, Sequences, FiniteSets, TLC

\* ------------------------------------------------------------- bounds
\* longest port argument (characters) explored by the bootstrap specification
MaxArgLen == 5
\* longest port argument explored together with request handling
MaxServeArgLen == 1
\* longest request path, in "/"-separated pieces of the raw request target
MaxPathLen == 3

\* ---------------------------------------------------- program constants
DEFAULT_PORT == 8888
SAMPLE_DATA_DIR == <<"demo", "sample-data">>
\* ports the bind() of HTTPServer(('0.0.0.0', port), handler) accepts
MaxPort == 65535

\* ------------------------------------------------------- command line
ArgChars == {"-", "0", "8", "a"}
Digits == {"0", "8"}

RECURSIVE StringsUpTo(_)
StringsUpTo(n) ==
  IF n = 0 THEN {<<>>}
  ELSE LET shorter == StringsUpTo(n - 1)
       IN shorter \cup {Append(s, c) : s \in {t \in shorter : Len(t) = n - 1}, c \in ArgChars}

\* sys.argv[1:]: no argument, or one argument (further arguments are never read)
ArgvUpTo(n) == {<<>>} \cup {<<s>> : s \in StringsUpTo(n)}

DigitValue(c) == IF c = "8" THEN 8 ELSE 0

\* int(text) for the characters above: an optional sign, then one or more digits
IsIntLiteral(text) ==
  LET body == IF text # <<>> /\ Head(text) = "-" THEN Tail(text) ELSE text
  IN body # <<>> /\ \A i \in 1..Len(body) : body[i] \in Digits

RECURSIVE Magnitude(_)
Magnitude(body) ==
  IF body = <<>> THEN 0
  ELSE 10 * Magnitude(SubSeq(body, 1, Len(body) - 1)) + DigitValue(body[Len(body)])

int(text) ==
  IF Head(text) = "-" THEN 0 - Magnitude(Tail(text)) ELSE Magnitude(text)

\* ---------------------------------------------------------- file system
\* absolute locations, as component sequences below "/"
script_dir == <<"repo">>
sample_data_path == script_dir \o SAMPLE_DATA_DIR

FileNames == {"a"}
DirNames == {"s"}
Contents == {"x", "y"}

\* locations whose entry the environment decides
RootFiles == {sample_data_path \o <<n>> : n \in FileNames}
RootDirs == {sample_data_path \o <<d>> : d \in DirNames}
NestedFiles == {sample_data_path \o <<d, n>> : d \in DirNames, n \in FileNames}
\* locations above the serving root: a file of the same name as one inside it
AboveFiles == {script_dir \o <<"demo">> \o <<n>> : n \in FileNames}
AboveDirs == {<<>>, script_dir, script_dir \o <<"demo">>}

Locations == AboveDirs \cup AboveFiles \cup {sample_data_path} \cup RootFiles \cup RootDirs \cup NestedFiles

Entries == {"none", "dir"} \cup Contents

IsFile(e) == e \in Contents

Parent(loc) == SubSeq(loc, 1, Len(loc) - 1)

\* a tree: an entry exists only inside a directory
WellFormed(f) ==
  \A l \in Locations : (l # <<>> /\ f[l] # "none") => f[Parent(l)] = "dir"

\* the tree with the given entries at the serving directory, the files in it, its
\* subdirectory and the files in that
Tree(root, file, dir, nested) ==
  [l \in Locations |->
     IF l \in AboveDirs THEN "dir"
     ELSE IF l \in AboveFiles THEN "y"
     ELSE IF l = sample_data_path THEN root
     ELSE IF l \in RootFiles THEN file
     ELSE IF l \in RootDirs THEN dir
     ELSE nested]

\* the serving directory is missing, a regular file, or a directory
FileSystems ==
  {f \in {Tree(root, file, dir, nested) :
             root \in {"none", "dir", "x"}, file \in {"none"} \cup Contents,
             dir \in {"none", "dir"}, nested \in {"none"} \cup Contents} :
     WellFormed(f)}

\* the kernel's resolution of a path's components: "." and "" stay, ".." goes up
RECURSIVE Resolve(_, _)
Resolve(comps, acc) ==
  IF comps = <<>> THEN acc
  ELSE LET c == Head(comps)
       IN IF c \in {"", "."} THEN Resolve(Tail(comps), acc)
          ELSE IF c = ".." THEN Resolve(Tail(comps), IF acc = <<>> THEN acc ELSE Parent(acc))
          ELSE Resolve(Tail(comps), Append(acc, c))

Lookup(f, comps) ==
  LET loc == Resolve(comps, <<>>)
  IN IF loc \in Locations THEN f[loc] ELSE "none"

IsPrefix(p, s) == Len(p) <= Len(s) /\ SubSeq(s, 1, Len(p)) = p

\* the location is the serving root or lies below it
InRoot(comps) == IsPrefix(sample_data_path, Resolve(comps, <<>>))


\* ------------------------------------------------------- request handler
Methods == {"GET", "HEAD", "OPTIONS", "POST"}
PathSegs == {"", "..", "a", "s"}

RECURSIVE SeqsOfLen(_)
SeqsOfLen(n) ==
  IF n = 0 THEN {<<>>}
  ELSE {Append(s, c) : s \in SeqsOfLen(n - 1), c \in PathSegs}

\* raw request targets split at "/": "/a" is <<"", "a">>, "../a" is <<"..", "a">>,
\* "/s/" is <<"", "s", "">>; the empty target is no request
RequestPaths == UNION {SeqsOfLen(n) : n \in 1..MaxPathLen} \ {<<"">>}

CORSHeaders ==
  { <<"Access-Control-Allow-Origin", "*">>,
    <<"Access-Control-Allow-Methods", "GET, OPTIONS">>,
    <<"Access-Control-Allow-Headers", "Content-Type">> }

NoResponse == [status |-> 0, headers |-> {}, body |-> <<>>]

\* log_message: print() of the formatted line; the result tells whether the write
\* to standard output went through (print raises otherwise)
log_message(stdoutWritable) == stdoutWritable

\* end_headers with the third send_header call left out
end_headers_two(buffer) ==
  buffer \cup { <<"Access-Control-Allow-Origin", "*">>,
                <<"Access-Control-Allow-Methods", "GET, OPTIONS">> }

\* end_headers: the three send_header calls, then the base class flushes the buffer
end_headers(buffer) ==
  buffer \cup CORSHeaders

\* send_response .. end_headers .. body of one reply
Reply(code, buffer, body) ==
  [status |-> code, headers |-> end_headers(buffer), body |-> body]

\* send_error: status line, Connection: close, an HTML page unless the command is HEAD
send_error(code, method) ==
  Reply(code,
        {<<"Connection", "close">>, <<"Content-Type", "text/html;charset=utf-8">>},
        IF method = "HEAD" THEN <<>> ELSE <<"error page">>)

\* the text ends with "/"
EndsWithSlash(path) == Len(path) >= 2 /\ path[Len(path)] = ""

\* posixpath.normpath on the split text: the components it keeps
RECURSIVE normpath(_, _, _)
normpath(comps, initial_slashes, new_comps) ==
  IF comps = <<>> THEN new_comps
  ELSE LET comp == Head(comps)
           rest == Tail(comps)
       IN IF comp \in {"", "."} THEN normpath(rest, initial_slashes, new_comps)
          ELSE IF \/ comp # ".."
                  \/ (~initial_slashes /\ new_comps = <<>>)
                  \/ (new_comps # <<>> /\ new_comps[Len(new_comps)] = "..")
               THEN normpath(rest, initial_slashes, Append(new_comps, comp))
          ELSE IF new_comps # <<>>
               THEN normpath(rest, initial_slashes, SubSeq(new_comps, 1, Len(new_comps) - 1))
          ELSE normpath(rest, initial_slashes, new_comps)

\* the loop of translate_path: words that are "." or ".." are skipped
RECURSIVE JoinWords(_, _)
JoinWords(path, words) ==
  IF words = <<>> THEN path
  ELSE IF Head(words) \in {".", ".."} THEN JoinWords(path, Tail(words))
  ELSE JoinWords(Append(path, Head(words)), Tail(words))

\* translate_path: the file-system path below `directory` that a request path names
translate_path(directory, path) ==
  JoinWords(directory, normpath(path, Len(path) >= 2 /\ path[1] = "", <<>>))

\* the names list_directory prints, sorted
ListingOrder == <<"a", "s">>

list_directory(f, fspath) ==
  LET here == Resolve(fspath, <<>>)
      shown == SelectSeq(ListingOrder, LAMBDA n : Lookup(f, Append(here, n)) # "none")
  IN <<"listing">> \o shown

\* send_head, then do_GET copies the file and do_HEAD does not. `unmodifiedSince`:
\* the request carries an If-Modified-Since date that is not older than the named
\* file, and no If-None-Match. (A directory is listed unless it holds index.html or
\* index.htm; no file of the model has such a name.)
send_head(method, path, f, directory, unmodifiedSince) ==
  LET fspath == translate_path(directory, path)
      entry == Lookup(f, fspath)
      body(b) == IF method = "HEAD" THEN <<>> ELSE b
  IN IF entry = "dir"
     THEN IF ~EndsWithSlash(path)
          THEN Reply(301, {<<"Location", "path/">>, <<"Content-Length", "0">>}, <<>>)
          ELSE Reply(200, {<<"Content-type", "text/html">>}, body(list_directory(f, fspath)))
     ELSE IF EndsWithSlash(path) \/ entry = "none"
          THEN send_error(404, method)
     ELSE IF unmodifiedSince
          THEN Reply(304, {}, <<>>)
     ELSE Reply(200, {<<"Content-type", "guessed">>}, body(<<entry>>))

\* handle_one_request: the method's do_* if the class has one, else 501; every reply
\* is logged (log_request / log_error) before its first byte is written, and an
\* exception out of the log call ends the exchange with nothing sent
handle_one_request(method, path, f, directory, stdoutWritable, unmodifiedSince) ==
  LET fspath == IF method \in {"GET", "HEAD"} THEN translate_path(directory, path) ELSE <<>>
      logged == log_message(stdoutWritable)
      resp == IF ~logged THEN NoResponse
              ELSE IF method \in {"GET", "HEAD"}
              THEN send_head(method, path, f, directory, unmodifiedSince)
              ELSE send_error(501, method)
  IN [method |-> method, path |-> path, conditional |-> unmodifiedSince,
      fspath |-> fspath, logged |-> logged, resp |-> resp]

NoRequest ==
  [method |-> "", path |-> <<>>, conditional |-> FALSE, fspath |-> <<>>, logged |-> FALSE,
   resp |-> NoResponse]


\* ----------------------------------------------------------------- state
VARIABLES
  argv,             \* sys.argv[1:]
  pc,               \* where main() is
  port,             \* main's local `port`
  cwd,              \* the process's working directory
  fs,               \* the file system: location -> "none", "dir" or a file's contents
  files,            \* main's local `files`, listed once at startup
  sock,             \* the server's socket: "none", "listening" or "closed"
  bindAttempted,    \* HTTPServer(...) was called
  stdout,           \* what main() printed to standard output
  stderr,           \* what reached standard error
  exitCode,         \* the process's exit status, -1 while it runs
  shutdown_request, \* BaseServer.__shutdown_request
  is_shut_down,     \* BaseServer.__is_shut_down (an Event)
  last              \* the exchange on the accepted connection: request, translated
                    \* path, reply; NoRequest when no connection is open

vars == <<argv, pc, port, cwd, fs, files, sock, bindAttempted, stdout, stderr,
          exitCode, shutdown_request, is_shut_down, last>>

\* where the operator may have started the program from
LaunchDirs == {<<>>, script_dir}

InitWith(arguments) ==
  /\ argv \in arguments
  /\ pc = "parse_port"
  /\ port = DEFAULT_PORT
  /\ cwd \in LaunchDirs
  /\ fs \in FileSystems
  /\ files = {}
  /\ sock = "none"
  /\ bindAttempted = FALSE
  /\ stdout = <<>>
  /\ stderr = <<>>
  /\ exitCode = -1
  /\ shutdown_request = FALSE
  /\ is_shut_down = FALSE
  /\ last = NoRequest

Init == InitWith(ArgvUpTo(MaxServeArgLen))

InitBoot == InitWith(ArgvUpTo(MaxArgLen))

\* sys.exit(code), or an uncaught exception (traceback on standard error, status 1)
Exit(code, out, err) ==
  /\ pc' = "exited"
  /\ exitCode' = code
  /\ stdout' = stdout \o out
  /\ stderr' = stderr \o err

\* ------------------------------------------------------------- main()
\* the port argument, falling back to the default when it does not parse
ParsePortFallback ==
  /\ pc = "parse_port"
  /\ port' = IF Len(argv) > 0 /\ IsIntLiteral(argv[1]) THEN int(argv[1]) ELSE DEFAULT_PORT
  /\ pc' = "check_dir"
  /\ UNCHANGED <<argv, cwd, fs, files, sock, bindAttempted, stdout, stderr, exitCode,
                 shutdown_request, is_shut_down, last>>

\* lines 45-52: the port argument
ParsePort ==
  /\ pc = "parse_port"
  /\ IF Len(argv) > 0
     THEN IF IsIntLiteral(argv[1])
          THEN /\ port' = int(argv[1])
               /\ pc' = "check_dir"
               /\ UNCHANGED <<exitCode, stdout, stderr>>
          ELSE /\ Exit(1, <<"Error: Invalid port number", "Usage: [port]">>, <<>>)
               /\ UNCHANGED port
     ELSE /\ pc' = "check_dir"
          /\ UNCHANGED <<port, exitCode, stdout, stderr>>
  /\ UNCHANGED <<argv, cwd, fs, files, sock, bindAttempted, shutdown_request,
                 is_shut_down, last>>

\* the directory check ending the process with sys.exit() and no status
CheckDirExitZero ==
  /\ pc = "check_dir"
  /\ IF fs[sample_data_path] = "none"
     THEN Exit(0, <<"Error: Sample data directory not found">>, <<>>)
     ELSE /\ pc' = "chdir"
          /\ UNCHANGED <<exitCode, stdout, stderr>>
  /\ UNCHANGED <<argv, port, cwd, fs, files, sock, bindAttempted, shutdown_request,
                 is_shut_down, last>>

\* lines 55-62: the serving directory must exist
CheckDir ==
  /\ pc = "check_dir"
  /\ IF fs[sample_data_path] = "none"
     THEN Exit(1, <<"Error: Sample data directory not found">>, <<>>)
     ELSE /\ pc' = "chdir"
          /\ UNCHANGED <<exitCode, stdout, stderr>>
  /\ UNCHANGED <<argv, port, cwd, fs, files, sock, bindAttempted, shutdown_request,
                 is_shut_down, last>>

\* chdir to the directory that holds the sample-data directory
ChDirParent ==
  /\ pc = "chdir"
  /\ IF fs[sample_data_path] = "dir"
     THEN /\ cwd' = Parent(sample_data_path)
          /\ pc' = "list_files"
          /\ UNCHANGED <<exitCode, stdout, stderr>>
     ELSE /\ Exit(1, <<>>, <<"Traceback: NotADirectoryError">>)
          /\ UNCHANGED cwd
  /\ UNCHANGED <<argv, port, fs, files, sock, bindAttempted, shutdown_request,
                 is_shut_down, last>>

\* line 64: os.chdir raises NotADirectoryError when the path is a regular file
ChDir ==
  /\ pc = "chdir"
  /\ IF fs[sample_data_path] = "dir"
     THEN /\ cwd' = sample_data_path
          /\ pc' = "list_files"
          /\ UNCHANGED <<exitCode, stdout, stderr>>
     ELSE /\ Exit(1, <<>>, <<"Traceback: NotADirectoryError">>)
          /\ UNCHANGED cwd
  /\ UNCHANGED <<argv, port, fs, files, sock, bindAttempted, shutdown_request,
                 is_shut_down, last>>

\* line 67: the regular files directly in the working directory
ListFiles ==
  /\ pc = "list_files"
  /\ files' = {l[Len(l)] : l \in {m \in Locations : m # <<>> /\ Parent(m) = cwd /\ IsFile(fs[m])}}
  /\ pc' = "create_server"
  /\ UNCHANGED <<argv, port, cwd, fs, sock, bindAttempted, stdout, stderr, exitCode,
                 shutdown_request, is_shut_down, last>>

\* lines 70-71: HTTPServer.__init__ creates the socket and binds it; a port outside
\* 0..65535 makes bind() raise OverflowError, a port the system refuses (in use, or
\* privileged) makes it raise OSError; __init__ then closes the socket and re-raises.
\* Port 0 is accepted: the system picks a free port.
CreateServer ==
  /\ pc = "create_server"
  /\ bindAttempted' = TRUE
  /\ \E refused \in BOOLEAN :
       IF port \notin 0..MaxPort
       THEN /\ sock' = "closed"
            /\ Exit(1, <<>>, <<"Traceback: OverflowError">>)
       ELSE IF refused
       THEN /\ sock' = "closed"
            /\ Exit(1, <<>>, <<"Traceback: OSError">>)
       ELSE /\ sock' = "listening"
            /\ pc' = "banner"
            /\ UNCHANGED <<exitCode, stdout, stderr>>
  /\ UNCHANGED <<argv, port, cwd, fs, files, shutdown_request, is_shut_down, last>>

\* lines 74-92: the banner
PrintBanner ==
  /\ pc = "banner"
  /\ stdout' = stdout \o <<"banner">>
  /\ pc' = "serve_forever"
  \* line 96: serve_forever() clears the event on entry
  /\ is_shut_down' = FALSE
  /\ UNCHANGED <<argv, port, cwd, fs, files, sock, bindAttempted, stderr, exitCode,
                 shutdown_request, last>>

\* the directory a handler serves from: partial(CustomHTTPRequestHandler) passes no
\* directory, so each handler takes the working directory
handler_directory == cwd

\* line 96: one request taken from the listening socket and handled to the end
Handle(stdoutWritable) ==
  /\ pc = "serve_forever"
  /\ last = NoRequest
  /\ \E method \in Methods, path \in RequestPaths, unmodifiedSince \in BOOLEAN :
       last' = handle_one_request(method, path, fs, handler_directory, stdoutWritable,
                                  unmodifiedSince)
  /\ UNCHANGED <<argv, pc, port, cwd, fs, files, sock, bindAttempted, stdout, stderr,
                 exitCode, shutdown_request, is_shut_down>>

\* a server that answers only for the files it listed at startup
HandleRequestStartupFiles ==
  /\ pc = "serve_forever"
  /\ last = NoRequest
  /\ \E method \in Methods, path \in RequestPaths, unmodifiedSince \in BOOLEAN :
       last' = handle_one_request(
                 method, path,
                 [l \in Locations |->
                    IF l \in RootFiles /\ l[Len(l)] \notin files THEN "none" ELSE fs[l]],
                 handler_directory, TRUE, unmodifiedSince)
  /\ UNCHANGED <<argv, pc, port, cwd, fs, files, sock, bindAttempted, stdout, stderr,
                 exitCode, shutdown_request, is_shut_down>>

\* a request whose log line is written
HandleRequest == Handle(TRUE)

\* a request that arrives when standard output cannot be written
HandleRequestLogFails == Handle(FALSE)

\* line 96: the loop closes the connection (shutdown_request) and polls again
FinishRequest ==
  /\ pc = "serve_forever"
  /\ last # NoRequest
  /\ last' = NoRequest
  /\ UNCHANGED <<argv, pc, port, cwd, fs, files, sock, bindAttempted, stdout, stderr,
                 exitCode, shutdown_request, is_shut_down>>

\* line 97: Ctrl+C during serve_forever(); its finally clause runs as the
\* exception leaves the loop
Interrupt ==
  /\ pc = "serve_forever"
  /\ shutdown_request' = FALSE
  /\ is_shut_down' = TRUE
  /\ pc' = "except"
  /\ UNCHANGED <<argv, port, cwd, fs, files, sock, bindAttempted, stdout, stderr,
                 exitCode, last>>

\* lines 98-100: print, server.shutdown() (sets the request flag and waits for the
\* event), sys.exit(0); server_close() is never called
ExceptKeyboardInterrupt ==
  /\ pc = "except"
  /\ is_shut_down
  /\ shutdown_request' = TRUE
  /\ Exit(0, <<"Server stopped by user">>, <<>>)
  /\ UNCHANGED <<argv, port, cwd, fs, files, sock, bindAttempted, is_shut_down,
                 last>>

\* line 98 when standard output cannot be written: print raises inside the except
\* clause and the exception ends the process
ExceptKeyboardInterruptLogFails ==
  /\ pc = "except"
  /\ Exit(1, <<>>, <<"Traceback: BrokenPipeError">>)
  /\ UNCHANGED <<argv, port, cwd, fs, files, sock, bindAttempted, shutdown_request,
                 is_shut_down, last>>

\* ------------------------------------------------------- the environment
\* another process writes, rewrites or removes a file of the serving directory
\* while the server runs; a request is handled in one step, so the changes fall
\* between exchanges
WriteFile ==
  /\ pc = "serve_forever"
  /\ last = NoRequest
  /\ \E l \in RootFiles \cup NestedFiles, c \in Contents :
       /\ fs[Parent(l)] = "dir"
       /\ fs[l] # c
       /\ fs' = [fs EXCEPT ![l] = c]
  /\ UNCHANGED <<argv, pc, port, cwd, files, sock, bindAttempted, stdout, stderr,
                 exitCode, shutdown_request, is_shut_down, last>>

DeleteFile ==
  /\ pc = "serve_forever"
  /\ last = NoRequest
  /\ \E l \in RootFiles \cup NestedFiles :
       /\ IsFile(fs[l])
       /\ fs' = [fs EXCEPT ![l] = "none"]
  /\ UNCHANGED <<argv, pc, port, cwd, files, sock, bindAttempted, stdout, stderr,
                 exitCode, shutdown_request, is_shut_down, last>>

\* ------------------------------------------------------- specifications
NextBoot ==
  \/ ParsePort
  \/ CheckDir
  \/ ChDir
  \/ ListFiles
  \/ CreateServer
  \/ PrintBanner
  \/ Interrupt
  \/ ExceptKeyboardInterrupt

Next ==
  \/ NextBoot
  \/ HandleRequest
  \/ FinishRequest
  \/ WriteFile
  \/ DeleteFile

NextLogFault ==
  \/ Next
  \/ HandleRequestLogFails
  \/ ExceptKeyboardInterruptLogFails

\* the whole program, standard output writable
Spec == Init /\ [][Next]_vars

\* the bootstrap over every port argument, no client connecting
SpecBoot == InitBoot /\ [][NextBoot]_vars

\* the whole program, standard output failing at times
SpecLogFault == Init /\ [][NextLogFault]_vars


\* ----------------------------------------------------------------- claims
Printed(stream, line) == \E i \in 1..Len(stream) : stream[i] = line

\* the names a request for "/<name>" can carry
Names == PathSegs \ {"", ".."}

\* the entry named f directly in the serving directory, now
RootEntry(f) == Lookup(fs, Append(sample_data_path, f))

HasCORS(resp) == CORSHeaders \subseteq resp.headers

\* C1 as stated: GET /f is answered 200 with the file's current contents when a
\* regular file f exists directly in the serving root, and 404 whenever no such
\* regular file exists (stated for requests without If-Modified-Since).
C1_Original ==
  \A f \in Names :
    (last.method = "GET" /\ last.path = <<"", f>> /\ ~last.conditional) =>
      IF IsFile(RootEntry(f))
      THEN last.resp.status = 200 /\ last.resp.body = <<RootEntry(f)>>
      ELSE last.resp.status = 404

\* C1 amended: when a regular file f exists directly in the serving root (whether
\* or not it was there at startup), GET /f is answered 200 with the file's current
\* contents, or 304 with no body when the request carries an If-Modified-Since date
\* not older than the file; it is answered 404 when nothing named f exists there,
\* and with a 301 redirect to f/ when f is a directory.
C1_CurrentFiles ==
  \A f \in Names :
    (last.method = "GET" /\ last.path = <<"", f>>) =>
      IF IsFile(RootEntry(f))
      THEN IF last.conditional
           THEN last.resp.status = 304 /\ last.resp.body = <<>>
           ELSE last.resp.status = 200 /\ last.resp.body = <<RootEntry(f)>>
      ELSE IF RootEntry(f) = "none"
      THEN last.resp.status = 404
      ELSE last.resp.status = 301 /\ last.resp.body = <<>>

\* a file that was not there at startup is served with its contents
C1_Witness ==
  /\ last.method = "GET"
  /\ last.path = <<"", "a">>
  /\ "a" \notin files
  /\ IsFile(RootEntry("a"))
  /\ last.resp.status = 200
  /\ last.resp.body = <<RootEntry("a")>>

\* C2: when the serving directory does not exist at startup, the process never
\* creates or binds a socket, never gets past the directory check, can always take
\* its next step until it has exited, and exits with status 1.
C2_MissingDirFailsFast ==
  fs[sample_data_path] = "none" =>
    /\ sock = "none"
    /\ ~bindAttempted
    /\ pc \in {"parse_port", "check_dir", "exited"}
    /\ pc # "exited" => ENABLED NextBoot
    /\ pc = "exited" => exitCode = 1

\* a valid port, a missing directory, and the process gone with status 1
C2_Witness ==
  /\ fs[sample_data_path] = "none"
  /\ Len(argv) > 0 /\ IsIntLiteral(argv[1])
  /\ pc = "exited"
  /\ exitCode = 1
  /\ Printed(stdout, "Error: Sample data directory not found")

Unparseable == Len(argv) > 0 /\ ~IsIntLiteral(argv[1])

\* C3: when the port argument does not parse as an integer, the process prints an
\* error and exits with status 1 without having checked the directory, changed
\* directory, listed files or created a socket.
C3_BadPortExitsFirst ==
  Unparseable =>
    /\ pc \in {"parse_port", "exited"}
    /\ sock = "none"
    /\ ~bindAttempted
    /\ cwd \in LaunchDirs
    /\ files = {}
    /\ pc = "exited" =>
         /\ exitCode = 1
         /\ Printed(stdout \o stderr, "Error: Invalid port number")

\* the argument "aaa", and the process gone with status 1
C3_Witness ==
  /\ argv = << <<"a", "a", "a">> >>
  /\ pc = "exited"
  /\ exitCode = 1
  /\ ~bindAttempted

OutOfRange ==
  Len(argv) > 0 /\ IsIntLiteral(argv[1]) /\ int(argv[1]) \notin 1..MaxPort

\* C4 as stated: a port argument that parses to an integer outside 1..65535 makes
\* the process print the usage message and exit with status 1, with no attempt to
\* bind and no serve loop (stated where the serving directory exists, so that no
\* other startup error ends the process first).
C4_Original ==
  (OutOfRange /\ fs[sample_data_path] = "dir") =>
    /\ ~bindAttempted
    /\ pc \notin {"banner", "serve_forever", "except"}
    /\ pc = "exited" => exitCode = 1 /\ Printed(stdout \o stderr, "Usage: [port]")

C6_Original ==
  last.method = "OPTIONS" =>
    /\ last.resp.status = 200
    /\ last.resp.body = <<>>
    /\ HasCORS(last.resp)

\* the file the raw request path names when it is joined to the serving root and
\* left to the file system: a regular file outside the root
NamesFileAbove(path) ==
  LET joined == sample_data_path \o path
  IN ~InRoot(joined) /\ IsFile(Lookup(fs, joined))

\* C7 as stated: the location the handler resolves is inside the serving root, and
\* a request that names a file above the root is answered with 404 (stated for
\* requests without If-Modified-Since).
C7_Original ==
  (last.method \in {"GET", "HEAD"} /\ ~last.conditional) =>
    /\ InRoot(last.fspath)
    /\ NamesFileAbove(last.path) => last.resp.status = 404

\* C7 amended: the location the handler resolves is inside the serving root, and
\* the reply comes from that location: 404 when nothing is there (or a file is named
\* with a trailing slash), a file's reply carries the contents of the file at that
\* location inside the root; so a request that names a file above the root is
\* answered 404 or with the entry of the same normalised name inside the root,
\* never with the file above.
C7_StaysInRoot ==
  last.method \in {"GET", "HEAD"} =>
    LET entry == Lookup(fs, last.fspath)
    IN /\ InRoot(last.fspath)
       /\ last.resp.status = 404 <=>
            (entry = "none" \/ (IsFile(entry) /\ EndsWithSlash(last.path)))
       /\ (last.resp.status = 200 /\ IsFile(entry) /\ last.method = "GET") =>
            last.resp.body = <<entry>>
       /\ NamesFileAbove(last.path) =>
            \/ last.resp.status = 404
            \/ Lookup(fs, last.fspath) # "none"

\* a traversal request for a file above the root, answered 404
C7_Witness ==
  /\ last.method = "GET"
  /\ NamesFileAbove(last.path)
  /\ InRoot(last.fspath)
  /\ last.resp.status = 404

\* C8 as stated: after an interrupt during the serve loop the process prints the
\* stop message, has released the listening socket when it exits, and exits with
\* status 0.
C8_Original ==
  (pc = "exited" /\ Printed(stdout, "Server stopped by user")) =>
    /\ exitCode = 0
    /\ sock = "closed"

\* C9 as stated: when the log line of a request cannot be written, the client
\* still receives the reply it would have received had the line been written.
C9_Original ==
  (last # NoRequest /\ ~last.logged) =>
    last.resp = handle_one_request(last.method, last.path, fs, handler_directory, TRUE,
                                   last.conditional).resp

\* C10 as stated: both fatal startup errors leave their text on standard error
\* and nothing on standard output.
C10_Original ==
  (pc = "exited" /\ (Unparseable \/ fs[sample_data_path] = "none")) =>
    /\ stderr # <<>>
    /\ stdout = <<>>

====
